---- MODULE Spec2Model ----
(***************************************************************************)
(* charmvpn: an interactive menu over nmcli (src/main.go).                 *)
(*                                                                         *)
(* Text is a sequence of symbols.  A symbol is one character (":", " ",    *)
(* "\n", "/", ".", "a", "f") or an indivisible word ("vpn", "Error",       *)
(* ".ovpn", an error text).  No character of a word occurs as a symbol of  *)
(* its own in the same text, so a substring or suffix test on symbols      *)
(* agrees with the test on characters.                                     *)
(***************************************************************************)
EXTENDS Integers, Sequences, FiniteSets, TLC

VARIABLES
    pc,           \* position of main: which prompt it blocks on, or "done"
    action,       \* main: var action Action
    err,          \* main: error of the most recent form.Run()
    vpns,         \* main: vpns := getVPNList()
    selectedVPN,  \* main: var selectedVPN string
    confirmed,    \* main: var confirmed bool
    calls,        \* commands run and files written in this loop iteration
    printed,      \* what fmt.Println wrote in the current loop iteration
    output,       \* SpecList: combined output of the nmcli listing
    parsed,       \* SpecList: what the three list functions made of it
    xin,          \* SpecExport: arguments and environment of exportVPN
    xout          \* SpecExport: what exportVPN did with them

vars == <<pc, action, err, vpns, selectedVPN, confirmed, calls, printed,
          output, parsed, xin, xout>>

menuVars == <<pc, action, err, vpns, selectedVPN, confirmed, calls, printed>>

-----------------------------------------------------------------------------
(* Bounds                                                                  *)

\* longest listing output enumerated by SpecList
MaxLen == 7
\* most lines of a listing output seen by the menu
MaxLines == 2
\* longest connection name enumerated by SpecExport
MaxNameLen == 2
\* longest destination path enumerated by SpecExport
MaxPathLen == 2

-----------------------------------------------------------------------------
(* package strings                                                         *)

Nil == "nil"

IsSpace(c) == c \in {" ", "\n"}

RECURSIVE TrimLeft(_)
TrimLeft(s) ==
    IF s # <<>> /\ IsSpace(Head(s)) THEN TrimLeft(Tail(s)) ELSE s

RECURSIVE TrimRight(_)
TrimRight(s) ==
    IF s # <<>> /\ IsSpace(s[Len(s)])
    THEN TrimRight(SubSeq(s, 1, Len(s) - 1))
    ELSE s

\* strings.TrimSpace
TrimSpace(s) == TrimRight(TrimLeft(s))

\* strings.Index for a one-symbol separator; 0 when absent
Index(s, c) ==
    IF \E i \in 1..Len(s) : s[i] = c
    THEN CHOOSE i \in 1..Len(s) : s[i] = c /\ \A j \in 1..(i - 1) : s[j] # c
    ELSE 0

\* strings.Split(s, c): Split of the empty text is one empty field
RECURSIVE Split(_, _)
Split(s, c) ==
    LET i == Index(s, c) IN
    IF i = 0 THEN <<s>>
    ELSE <<SubSeq(s, 1, i - 1)>> \o Split(SubSeq(s, i + 1, Len(s)), c)

\* strings.Contains
Contains(s, sub) ==
    \E i \in 0..(Len(s) - Len(sub)) : SubSeq(s, i + 1, i + Len(sub)) = sub

\* strings.HasSuffix
HasSuffix(s, suf) ==
    /\ Len(s) >= Len(suf)
    /\ SubSeq(s, Len(s) - Len(suf) + 1, Len(s)) = suf

RECURSIVE Join(_, _)
Join(parts, c) ==
    IF parts = <<>> THEN <<>>
    ELSE IF Len(parts) = 1 THEN parts[1]
    ELSE parts[1] \o <<c>> \o Join(Tail(parts), c)

-----------------------------------------------------------------------------
(* executeCommand and the list functions                                   *)

\* What cmd.CombinedOutput() gives: r.err is Nil or the error's text,
\* r.out the bytes the command wrote.
executeCommand(r) ==
    IF r.err # Nil
    THEN <<"Error", ":", " ", r.err, "\n">> \o r.out
    ELSE r.out

VpnTag == <<":", "vpn">>

\* for _, line := range lines { if Contains(line, ":vpn") { append(first field) } }
RECURSIVE CollectVPNs(_)
CollectVPNs(lines) ==
    IF lines = <<>> THEN <<>>
    ELSE (IF Contains(Head(lines), VpnTag)
          THEN <<Split(Head(lines), ":")[1]>>
          ELSE <<>>) \o CollectVPNs(Tail(lines))

getVPNList(r) ==
    LET out   == executeCommand(r)
        lines == Split(TrimSpace(out), "\n")
    IN  CollectVPNs(lines)

getActiveVPNs(r) ==
    LET out   == executeCommand(r)
        lines == Split(TrimSpace(out), "\n")
    IN  CollectVPNs(lines)

\* One piece of text handed to a strings.Builder or returned as a notice.
Chunk(label, idx, name, text) ==
    [label |-> label, idx |-> idx, name |-> name, text |-> text]

Notice(label) == <<Chunk(label, 0, <<>>, <<>>)>>

listVPNs(r) ==
    LET out   == executeCommand(r)
        lines == Split(TrimSpace(out), "\n")
        found == CollectVPNs(lines)
    IN  IF Len(found) = 0
        THEN Notice("No VPN connections found")
        ELSE Notice("Available VPN connections:")
             \o [i \in 1..Len(found) |-> Chunk("entry", i, found[i], <<>>)]

-----------------------------------------------------------------------------
(* path/filepath                                                           *)

Dot == <<".">>
DotDot == <<".", ".">>

\* The elements Clean keeps, given the elements kept so far (a stack).
RECURSIVE CleanElems(_, _, _)
CleanElems(elems, kept, rooted) ==
    IF elems = <<>> THEN kept
    ELSE LET e == Head(elems) rest == Tail(elems) IN
         IF e = <<>> \/ e = Dot THEN CleanElems(rest, kept, rooted)
         ELSE IF e = DotDot
         THEN IF kept # <<>> /\ kept[Len(kept)] # DotDot
              THEN CleanElems(rest, SubSeq(kept, 1, Len(kept) - 1), rooted)
              ELSE IF rooted THEN CleanElems(rest, kept, rooted)
              ELSE CleanElems(rest, Append(kept, e), rooted)
         ELSE CleanElems(rest, Append(kept, e), rooted)

\* filepath.Clean on a slash-separated path
Clean(path) ==
    LET rooted == path # <<>> /\ path[1] = "/"
        kept   == CleanElems(Split(path, "/"), <<>>, rooted)
        body   == Join(kept, "/")
    IN  IF rooted THEN <<"/">> \o body
        ELSE IF body = <<>> THEN Dot
        ELSE body

\* filepath.Join(dir, file): empty elements are ignored, the rest is cleaned
FilepathJoin(dir, file) ==
    IF dir = <<>> /\ file = <<>> THEN <<>>
    ELSE IF dir = <<>> THEN Clean(file)
    ELSE Clean(dir \o <<"/">> \o file)

-----------------------------------------------------------------------------
(* The operations on connections                                           *)

\* One external command run, or one os.WriteFile, and how it ended.
Call(verb, arg, r) ==
    [verb |-> verb, arg |-> arg, err |-> r.err, out |-> r.out]

Text(t) == Chunk("text", 0, <<>>, t)

connectVPN(vpnName, r) ==
    [ret |-> <<Text(executeCommand(r))>>, calls |-> <<Call("up", vpnName, r)>>]

addVPN(vpnFile, r) ==
    [ret   |-> <<Text(executeCommand(r))>>,
     calls |-> <<Call("import", vpnFile, r)>>]

removeVPN(vpnName, r) ==
    [ret   |-> <<Text(executeCommand(r))>>,
     calls |-> <<Call("delete", vpnName, r)>>]

\* disconnectVPN, were it to stop at the first deactivation that fails
disconnectVPN_StopOnFailure(rl, rs) ==
    LET active == getActiveVPNs(rl)
        bad    == {i \in 1..Len(active) : rs[i].err # Nil}
        last   == IF bad = {} THEN Len(active)
                  ELSE CHOOSE i \in bad : \A j \in bad : i <= j
    IN
    IF Len(active) = 0
    THEN [ret   |-> Notice("No active VPN connections found"),
          calls |-> <<Call("show --active", <<>>, rl)>>]
    ELSE [ret   |-> [i \in 1..last |->
                       Chunk("Disconnecting", i, active[i],
                             executeCommand(rs[i]))],
          calls |-> <<Call("show --active", <<>>, rl)>>
                    \o [i \in 1..last |-> Call("down", active[i], rs[i])]]

\* rl: how the listing of active connections ended; rs[i]: how
\* "connection down" of the i-th active entry ended.
disconnectVPN(rl, rs) ==
    LET active == getActiveVPNs(rl) IN
    IF Len(active) = 0
    THEN [ret   |-> Notice("No active VPN connections found"),
          calls |-> <<Call("show --active", <<>>, rl)>>]
    ELSE [ret   |-> [i \in 1..Len(active) |->
                       Chunk("Disconnecting", i, active[i],
                             executeCommand(rs[i]))],
          calls |-> <<Call("show --active", <<>>, rl)>>
                    \o [i \in 1..Len(active) |->
                          Call("down", active[i], rs[i])]]

\* vpnStatus, were it to fetch details without looking at the active set
vpnStatus_FetchOnEmpty(rl, rs) ==
    LET activeVpns == getActiveVPNs(rl)
        none       == [err |-> Nil, out |-> <<>>]
    IN
    IF Len(activeVpns) = 0
    THEN [ret   |-> Notice("Active VPN connections:")
                    \o <<Chunk("---", 1, <<>>, <<>>)>>,
          calls |-> <<Call("show --active", <<>>, rl),
                      Call("show", <<>>, none)>>]
    ELSE [ret   |-> Notice("Active VPN connections:")
                    \o [i \in 1..Len(activeVpns) |->
                          Chunk("---", i, activeVpns[i],
                                executeCommand(rs[i]))],
          calls |-> <<Call("show --active", <<>>, rl)>>
                    \o [i \in 1..Len(activeVpns) |->
                          Call("show", activeVpns[i], rs[i])]]

\* rs[i]: how "connection show" of the i-th active entry ended.
vpnStatus(rl, rs) ==
    LET activeVpns == getActiveVPNs(rl) IN
    IF Len(activeVpns) = 0
    THEN [ret   |-> Notice("No active VPN connections"),
          calls |-> <<Call("show --active", <<>>, rl)>>]
    ELSE [ret   |-> Notice("Active VPN connections:")
                    \o [i \in 1..Len(activeVpns) |->
                          Chunk("---", i, activeVpns[i],
                                executeCommand(rs[i]))],
          calls |-> <<Call("show --active", <<>>, rl)>>
                    \o [i \in 1..Len(activeVpns) |->
                          Call("show", activeVpns[i], rs[i])]]

Ovpn == <<".ovpn">>

\* ResolvePath, were it to append the suffix without testing for it
ResolvePath_AlwaysAppend(vpnName, outputPath, home) ==
    IF outputPath = <<>>
    THEN FilepathJoin(home, vpnName \o Ovpn)
    ELSE outputPath \o Ovpn

\* lines 133-143: the destination exportVPN settles on, given that
\* user.Current() returned the home directory
ResolvePath(vpnName, outputPath, home) ==
    IF outputPath = <<>>
    THEN FilepathJoin(home, vpnName \o Ovpn)
    ELSE IF ~HasSuffix(outputPath, Ovpn)
         THEN outputPath \o Ovpn
         ELSE outputPath

\* exportVPN, were it to write the file without looking at the output
exportVPN_WriteAnyway(vpnName, outputPath, u, r, w) ==
    IF outputPath = <<>> /\ u.err # Nil
    THEN [ret   |-> <<Text(<<"Error", ":", " ", u.err>>)>>,
          path  |-> <<>>,
          calls |-> <<>>]
    ELSE LET path == ResolvePath(vpnName, outputPath, u.home)
             out  == executeCommand(r)
             run  == Call("export", vpnName, r)
             wr   == Call("WriteFile", path, [err |-> w, out |-> out])
         IN  IF w # Nil
             THEN [ret   |-> <<Text(<<"Error writing to file",
                                      ":", " ", w>>)>>,
                   path  |-> path,
                   calls |-> <<run, wr>>]
             ELSE [ret   |-> <<Chunk("Successfully exported", 0,
                                     path, <<>>)>>,
                   path  |-> path,
                   calls |-> <<run, wr>>]

\* u: what user.Current() gives; r: how the export command ended;
\* w: the error of os.WriteFile, were it called.
exportVPN(vpnName, outputPath, u, r, w) ==
    IF outputPath = <<>> /\ u.err # Nil
    THEN [ret   |-> <<Text(<<"Error", ":", " ", u.err>>)>>,
          path  |-> <<>>,
          calls |-> <<>>]
    ELSE LET path == ResolvePath(vpnName, outputPath, u.home)
             out  == executeCommand(r)
             run  == Call("export", vpnName, r)
         IN  IF Contains(out, <<"Error">>)
             THEN [ret |-> <<Text(out)>>, path |-> path, calls |-> <<run>>]
             ELSE LET wr == Call("WriteFile", path, [err |-> w, out |-> out])
                  IN  IF w # Nil
                      THEN [ret   |-> <<Text(<<"Error writing to file",
                                               ":", " ", w>>)>>,
                            path  |-> path,
                            calls |-> <<run, wr>>]
                      ELSE [ret   |-> <<Chunk("Successfully exported", 0,
                                              path, <<>>)>>,
                            path  |-> path,
                            calls |-> <<run, wr>>]

-----------------------------------------------------------------------------
(* SpecList: every combined output nmcli can write, up to MaxLen           *)
(* symbols, is handed to the three list functions.                         *)

ListAlphabet == {"a", ":", "vpn", "\n", " "}

\* err.Error() of a failed cmd.CombinedOutput()
RunErrs == {"exit status 1"}

NotParsed ==
    [done |-> FALSE, err |-> Nil, list |-> <<>>, active |-> <<>>,
     shown |-> <<>>]

NoExport == [set |-> FALSE]

MenuIdle ==
    /\ pc = "menu"
    /\ action = ""
    /\ err = Nil
    /\ vpns = <<>>
    /\ selectedVPN = <<>>
    /\ confirmed = FALSE
    /\ calls = <<>>
    /\ printed = <<>>

InitList ==
    /\ MenuIdle
    /\ output = <<>>
    /\ parsed = NotParsed
    /\ xin = NoExport
    /\ xout = NoExport

\* nmcli writes one more symbol of its listing
WriteSymbol ==
    /\ ~parsed.done
    /\ Len(output) < MaxLen
    /\ \E c \in ListAlphabet : output' = Append(output, c)
    /\ UNCHANGED <<parsed, xin, xout>>
    /\ UNCHANGED menuVars

\* nmcli exits, with or without an error, and the list functions run
ListingReturns ==
    /\ ~parsed.done
    /\ \E e \in {Nil} \cup RunErrs :
         LET r == [err |-> e, out |-> output] IN
         parsed' = [done   |-> TRUE,
                    err    |-> e,
                    list   |-> getVPNList(r),
                    active |-> getActiveVPNs(r),
                    shown  |-> listVPNs(r)]
    /\ UNCHANGED <<output, xin, xout>>
    /\ UNCHANGED menuVars

NextList == WriteSymbol \/ ListingReturns

SpecList == InitList /\ [][NextList]_vars

-----------------------------------------------------------------------------
(* main: the menu loop.  One action per stretch of main between two        *)
(* prompts: the answer to the prompt it blocks on, then everything main    *)
(* does until it blocks on the next prompt or returns.                     *)

Connect == "Connect to VPN"
Disconnect == "Disconnect from VPN"
ListVPNs == "List available VPNs"
Status == "Show VPN status"
AddVPN == "Add VPN"
RemoveVPN == "Remove VPN"
ExportVPN == "Export VPN config"
Exit == "Exit"

\* huh.ErrUserAborted, or any other error of form.Run()
Aborted == "user aborted"

\* Lines nmcli -t -f NAME,TYPE can write: a VPN, a VPN with an empty name
\* and a connection of another kind.
MenuLines ==
    { <<"a", ":", "vpn">>, <<":", "vpn">>, <<"a", ":", "a">> }

RECURSIVE Listings(_)
Listings(n) ==
    IF n = 0 THEN {<<>>}
    ELSE Listings(n - 1)
         \cup {l \o <<"\n">> : l \in MenuLines}
         \cup {p \o l \o <<"\n">> :
                 p \in Listings(n - 1) \ {<<>>}, l \in MenuLines}

\* how a listing command can end
ListResults ==
    [err : {Nil} \cup RunErrs, out : Listings(MaxLines)]

\* how any other nmcli command can end
CommandResults ==
    { [err |-> Nil, out |-> <<"ok">>],
      [err |-> "exit status 1", out |-> <<"failed">>] }

\* how sudo nmcli connection export can end
ExportResults ==
    { [err |-> Nil, out |-> <<"config">>],
      [err |-> Nil, out |-> <<"config", " ", "Error">>],
      [err |-> "exit status 1", out |-> <<"not authorized">>] }

\* what user.Current() can give
UserResults ==
    { [err |-> Nil, home |-> <<"/", "h">>],
      [err |-> "unknown userid", home |-> <<>>] }

\* the errors of os.WriteFile
WriteErrs == {Nil, "permission denied"}

\* what the user can type into an input prompt
TypedFiles == { <<>>, <<"f">>, <<" ", "f", " ">> }
TypedPaths == { <<>>, <<" ">>, <<"f">>, <<"f", ".ovpn">>, <<"f", ".ovpn", " ">> }

Init ==
    /\ MenuIdle
    /\ output = <<>>
    /\ parsed = NotParsed
    /\ xin = NoExport
    /\ xout = NoExport

Pure == <<output, parsed, xin, xout>>

\* Every way each list-driven call can end, computed once.
FetchRuns == { [r |-> r, list |-> getVPNList(r)] : r \in ListResults }

ListRuns == { [r |-> r, ret |-> listVPNs(r)] : r \in ListResults }

DisconnectRuns ==
    UNION { { disconnectVPN(rl, rs) :
                rs \in [1..Len(getActiveVPNs(rl)) -> CommandResults] } :
            rl \in ListResults }

StatusRuns ==
    UNION { { vpnStatus(rl, rs) :
                rs \in [1..Len(getActiveVPNs(rl)) -> CommandResults] } :
            rl \in ListResults }

\* lines 186-190, 235-239, 272-276: fetch the list; empty: notify, continue
FetchList(act, notice, next) ==
    /\ \E f \in FetchRuns :
         /\ action' = act
         /\ err' = Nil
         /\ vpns' = f.list
         /\ selectedVPN' = <<>>
         /\ confirmed' = FALSE
         /\ calls' = <<Call("show", <<>>, f.r)>>
         /\ IF Len(f.list) = 0
            THEN printed' = Notice(notice) /\ pc' = "menu"
            ELSE printed' = <<>> /\ pc' = next
    /\ UNCHANGED Pure

\* the answer to a selection prompt over vpns
Selected(i) ==
    /\ i \in 1..Len(vpns)
    /\ err' = Nil
    /\ selectedVPN' = vpns[i]

AbortPrompt ==
    /\ err' = Aborted
    /\ pc' = "menu"
    /\ UNCHANGED <<action, vpns, selectedVPN, confirmed, calls, printed>>

\* a call made and its result printed, back to the menu
RunAndPrint(res) ==
    /\ calls' = calls \o res.calls
    /\ printed' = printed \o res.ret
    /\ pc' = "menu"

Skip ==
    /\ pc' = "menu"
    /\ UNCHANGED <<calls, printed>>

\* lines 179-182
MenuFail ==
    /\ pc = "menu"
    /\ action' = ""
    /\ err' = Aborted
    /\ printed' = <<Text(<<"Error", ":", " ", Aborted>>)>>
    /\ calls' = <<>>
    /\ pc' = "done"
    /\ UNCHANGED <<vpns, selectedVPN, confirmed>>
    /\ UNCHANGED Pure

\* lines 185-205
MenuConnect ==
    /\ pc = "menu"
    /\ FetchList(Connect, "No VPN connections available", "connect_select")

\* ConnectSelect, were it to test selectedVPN alone and not the error
ConnectSelect_IgnoreErr ==
    /\ pc = "connect_select"
    /\ \/ \E r \in CommandResults :
            /\ err' = Aborted
            /\ selectedVPN' = vpns[1]
            /\ IF vpns[1] # <<>>
               THEN RunAndPrint(connectVPN(vpns[1], r))
               ELSE Skip
            /\ UNCHANGED <<action, vpns, confirmed>>
       \/ \E i \in 1..Len(vpns), r \in CommandResults :
            /\ Selected(i)
            /\ IF vpns[i] # <<>>
               THEN RunAndPrint(connectVPN(vpns[i], r))
               ELSE Skip
            /\ UNCHANGED <<action, vpns, confirmed>>
    /\ UNCHANGED Pure

\* lines 207-209
ConnectSelect ==
    /\ pc = "connect_select"
    /\ \/ AbortPrompt
       \/ \E i \in 1..Len(vpns), r \in CommandResults :
            /\ Selected(i)
            /\ IF vpns[i] # <<>>
               THEN RunAndPrint(connectVPN(vpns[i], r))
               ELSE Skip
            /\ UNCHANGED <<action, vpns, confirmed>>
    /\ UNCHANGED Pure

\* the locals of an iteration that fetches no list
NoList ==
    /\ err' = Nil
    /\ vpns' = <<>>
    /\ selectedVPN' = <<>>
    /\ confirmed' = FALSE

\* lines 211-212
MenuDisconnect ==
    /\ pc = "menu"
    /\ \E res \in DisconnectRuns :
            /\ calls' = res.calls
            /\ printed' = res.ret
    /\ action' = Disconnect
    /\ pc' = "menu"
    /\ NoList
    /\ UNCHANGED Pure

\* lines 214-215
MenuList ==
    /\ pc = "menu"
    /\ \E l \in ListRuns :
            /\ calls' = <<Call("show", <<>>, l.r)>>
            /\ printed' = l.ret
    /\ action' = ListVPNs
    /\ pc' = "menu"
    /\ NoList
    /\ UNCHANGED Pure

\* lines 217-219
MenuStatus ==
    /\ pc = "menu"
    /\ \E res \in StatusRuns :
            /\ calls' = res.calls
            /\ printed' = Notice("VPN Status:") \o res.ret
    /\ action' = Status
    /\ pc' = "menu"
    /\ NoList
    /\ UNCHANGED Pure

\* lines 221-229
MenuAdd ==
    /\ pc = "menu"
    /\ action' = AddVPN
    /\ pc' = "add_input"
    /\ calls' = <<>>
    /\ printed' = <<>>
    /\ NoList
    /\ UNCHANGED Pure

\* AddInput, were a failed import to end the program
AddInput_FatalOnFailure ==
    /\ pc = "add_input"
    /\ \/ AbortPrompt
       \/ \E vpnFile \in TypedFiles, r \in CommandResults :
            LET res == addVPN(TrimSpace(vpnFile), r) IN
            /\ err' = Nil
            /\ calls' = calls \o res.calls
            /\ printed' = printed \o res.ret
            /\ pc' = IF r.err # Nil THEN "done" ELSE "menu"
            /\ UNCHANGED <<action, vpns, selectedVPN, confirmed>>
    /\ UNCHANGED Pure

\* lines 230-232
AddInput ==
    /\ pc = "add_input"
    /\ \/ AbortPrompt
       \/ \E vpnFile \in TypedFiles, r \in CommandResults :
            /\ err' = Nil
            /\ RunAndPrint(addVPN(TrimSpace(vpnFile), r))
            /\ UNCHANGED <<action, vpns, selectedVPN, confirmed>>
    /\ UNCHANGED Pure

\* lines 234-254
MenuRemove ==
    /\ pc = "menu"
    /\ FetchList(RemoveVPN, "No VPN connections available to remove",
                 "remove_select")

\* lines 256-264
RemoveSelect ==
    /\ pc = "remove_select"
    /\ \/ AbortPrompt
       \/ \E i \in 1..Len(vpns) :
            /\ Selected(i)
            /\ pc' = IF vpns[i] # <<>> THEN "remove_confirm" ELSE "menu"
            /\ UNCHANGED <<action, vpns, confirmed, calls, printed>>
    /\ UNCHANGED Pure

\* RemoveConfirm, were it to test the error alone and not the answer
RemoveConfirm_AnyAnswer ==
    /\ pc = "remove_confirm"
    /\ \/ AbortPrompt
       \/ \E yes \in BOOLEAN, r \in CommandResults :
            /\ err' = Nil
            /\ confirmed' = yes
            /\ RunAndPrint(removeVPN(selectedVPN, r))
            /\ UNCHANGED <<action, vpns, selectedVPN>>
    /\ UNCHANGED Pure

\* lines 266-268
RemoveConfirm ==
    /\ pc = "remove_confirm"
    /\ \/ AbortPrompt
       \/ \E yes \in BOOLEAN, r \in CommandResults :
            /\ err' = Nil
            /\ confirmed' = yes
            /\ IF yes
               THEN RunAndPrint(removeVPN(selectedVPN, r))
               ELSE Skip
            /\ UNCHANGED <<action, vpns, selectedVPN>>
    /\ UNCHANGED Pure

\* lines 271-291
MenuExport ==
    /\ pc = "menu"
    /\ FetchList(ExportVPN, "No VPN connections available to export",
                 "export_select")

\* lines 293-302
ExportSelect ==
    /\ pc = "export_select"
    /\ \/ AbortPrompt
       \/ \E i \in 1..Len(vpns) :
            /\ Selected(i)
            /\ pc' = IF vpns[i] # <<>> THEN "export_path" ELSE "menu"
            /\ UNCHANGED <<action, vpns, confirmed, calls, printed>>
    /\ UNCHANGED Pure

\* lines 304-306
ExportPath ==
    /\ pc = "export_path"
    /\ \/ AbortPrompt
       \/ \E outputPath \in TypedPaths, u \in UserResults,
             r \in ExportResults, w \in WriteErrs :
            /\ err' = Nil
            /\ RunAndPrint(exportVPN(selectedVPN, TrimSpace(outputPath),
                                     u, r, w))
            /\ UNCHANGED <<action, vpns, selectedVPN, confirmed>>
    /\ UNCHANGED Pure

\* lines 309-310
MenuExit ==
    /\ pc = "menu"
    /\ action' = Exit
    /\ pc' = "done"
    /\ calls' = <<>>
    /\ printed' = <<>>
    /\ NoList
    /\ UNCHANGED Pure

Next ==
    \/ MenuFail
    \/ MenuConnect
    \/ ConnectSelect
    \/ MenuDisconnect
    \/ MenuList
    \/ MenuStatus
    \/ MenuAdd
    \/ AddInput
    \/ MenuRemove
    \/ RemoveSelect
    \/ RemoveConfirm
    \/ MenuExport
    \/ ExportSelect
    \/ ExportPath
    \/ MenuExit

Spec == Init /\ [][Next]_vars

-----------------------------------------------------------------------------
(* Claims about the listing                                                *)

\* A NAME:TYPE record of kind vpn: exactly two fields, the second "vpn".
IsVpnRecord(line) ==
    LET f == Split(line, ":") IN Len(f) = 2 /\ f[2] = <<"vpn">>

RECURSIVE VpnRecordNames(_)
VpnRecordNames(lines) ==
    IF lines = <<>> THEN <<>>
    ELSE (IF IsVpnRecord(Head(lines))
          THEN <<Split(Head(lines), ":")[1]>>
          ELSE <<>>) \o VpnRecordNames(Tail(lines))

OutputLines == Split(TrimSpace(output), "\n")

ShownNames(shown) ==
    LET e == SelectSeq(shown, LAMBDA c : c.label = "entry")
    IN  [i \in 1..Len(e) |-> e[i].name]

\* C1: for every listing output, getVPNList, getActiveVPNs and listVPNs
\* list a line if and only if its second colon-delimited field is exactly
\* vpn, under the line's first field; every other line is skipped.
C1_SecondFieldIsVpn ==
    (parsed.done /\ parsed.err = Nil) =>
        /\ parsed.list = VpnRecordNames(OutputLines)
        /\ parsed.active = VpnRecordNames(OutputLines)
        /\ ShownNames(parsed.shown) = VpnRecordNames(OutputLines)

\* C2: with N lines of kind vpn and M other lines the listing has exactly
\* N entries, the i-th being the text before the first colon of the i-th
\* vpn line; with N = 0 listVPNs returns the fixed notice.
C2_ExactlyNEntries ==
    (parsed.done /\ parsed.err = Nil) =>
        LET tagged == SelectSeq(OutputLines, IsVpnRecord)
            N      == Len(tagged)
        IN  /\ Len(parsed.list) = N
            /\ \A i \in 1..N :
                 /\ i <= Len(parsed.list)
                 /\ parsed.list[i] =
                      SubSeq(tagged[i], 1, Index(tagged[i], ":") - 1)
            /\ N = 0 => parsed.shown = Notice("No VPN connections found")
            /\ N > 0 => Len(parsed.shown) = N + 1

\* C10: when the listing invocation fails, getVPNList and getActiveVPNs
\* return the empty sequence whatever text the invocation produced.
C10_FailedListingIsEmpty ==
    (parsed.done /\ parsed.err # Nil) =>
        parsed.list = <<>> /\ parsed.active = <<>>

-----------------------------------------------------------------------------
(* SpecExport: exportVPN on every name and destination up to the           *)
(* bounds, under every outcome of its three calls.                         *)

NameAlphabet == {"a", "/", "."}
PathAlphabet == {"f", "/", ".ovpn"}

RECURSIVE Strings(_, _)
Strings(alphabet, n) ==
    IF n = 0 THEN {<<>>}
    ELSE Strings(alphabet, n - 1)
         \cup {Append(t, c) : t \in Strings(alphabet, n - 1), c \in alphabet}

\* what user.Current() can give; main passes no empty name (line 293)
HomeResults ==
    { [err |-> Nil, home |-> <<"/", "h">>],
      [err |-> Nil, home |-> <<"/">>],
      [err |-> "unknown userid", home |-> <<>>] }

InitExport ==
    /\ MenuIdle
    /\ output = <<>>
    /\ parsed = NotParsed
    /\ xin \in [set  : {TRUE},
                name : Strings(NameAlphabet, MaxNameLen) \ {<<>>},
                dest : Strings(PathAlphabet, MaxPathLen),
                u    : HomeResults]
    /\ xout = NoExport

ExportRuns ==
    /\ ~xout.set
    /\ \E r \in ExportResults, w \in WriteErrs :
         LET res == exportVPN(xin.name, xin.dest, xin.u, r, w) IN
         xout' = [set |-> TRUE, ret |-> res.ret, path |-> res.path,
                  calls |-> res.calls]
    /\ UNCHANGED <<output, parsed, xin>>
    /\ UNCHANGED menuVars

NextExport == ExportRuns

SpecExport == InitExport /\ [][NextExport]_vars

-----------------------------------------------------------------------------
(* Claims about the operations and the menu                                *)

ResultOf(c) == [err |-> c.err, out |-> c.out]

\* the text executeCommand returns for a finished command
CallText(c) ==
    IF c.err # Nil THEN <<"Error", ":", " ", c.err, "\n">> \o c.out
    ELSE c.out

CallsOf(verb) == SelectSeq(calls, LAMBDA c : c.verb = verb)

\* the active VPN set the current iteration listed
ActiveSeen == getActiveVPNs(ResultOf(calls[1]))

\* C3: over an active set of size k >= 1 disconnectVPN runs exactly one
\* "connection down" per active entry, in listing order, and returns k
\* result entries whether or not any of them fails; over an empty set it
\* runs none and returns the nothing-active notice.
C3_OneDownPerActive ==
    (action = Disconnect /\ pc = "menu") =>
        LET k == Len(ActiveSeen) IN
        /\ calls[1].verb = "show --active"
        /\ Len(calls) = k + 1
        /\ \A i \in 1..k :
             /\ calls[i + 1].verb = "down"
             /\ calls[i + 1].arg = ActiveSeen[i]
        /\ k >= 1 =>
             /\ Len(printed) = k
             /\ \A i \in 1..k :
                  /\ printed[i].label = "Disconnecting"
                  /\ printed[i].name = ActiveSeen[i]
                  /\ printed[i].text = CallText(calls[i + 1])
        /\ k = 0 => printed = Notice("No active VPN connections found")

\* a deactivation failed and the next entry was still attempted
C3_Witness ==
    /\ action = Disconnect
    /\ pc = "menu"
    /\ Len(calls) = 3
    /\ calls[2].verb = "down" /\ calls[2].err # Nil
    /\ calls[3].verb = "down" /\ calls[3].arg # calls[2].arg
    /\ Len(printed) = 2

\* C8: over an empty active set vpnStatus returns the fixed message and
\* fetches no details; over a non-empty one it fetches the details of each
\* active entry exactly once, in listing order, and returns one labelled
\* block per entry.
C8_OneDetailFetchPerActive ==
    (action = Status /\ pc = "menu") =>
        LET k == Len(ActiveSeen) IN
        /\ calls[1].verb = "show --active"
        /\ Len(calls) = k + 1
        /\ \A i \in 1..k :
             /\ calls[i + 1].verb = "show"
             /\ calls[i + 1].arg = ActiveSeen[i]
        /\ k = 0 =>
             printed = Notice("VPN Status:")
                       \o Notice("No active VPN connections")
        /\ k >= 1 =>
             /\ Len(printed) = k + 2
             /\ printed[2].label = "Active VPN connections:"
             /\ \A i \in 1..k :
                  /\ printed[i + 2].label = "---"
                  /\ printed[i + 2].name = ActiveSeen[i]
                  /\ printed[i + 2].text = CallText(calls[i + 1])

\* the details of two active entries were fetched
C8_Witness ==
    /\ action = Status
    /\ pc = "menu"
    /\ Len(calls) = 3
    /\ calls[2].verb = "show" /\ calls[3].verb = "show"
    /\ calls[2].arg # calls[3].arg
    /\ Len(printed) = 4

\* the backend signalled an error on this export: a failed exit, or output
\* carrying the word Error
SignalsError(c) == c.err # Nil \/ Contains(c.out, <<"Error">>)

\* C4 over one log of calls and the text returned for it
ExportWriteRule(log, ret) ==
    /\ Len(SelectSeq(log, LAMBDA c : c.verb = "WriteFile")) <= 1
    /\ \A j \in 1..Len(log) :
         log[j].verb = "WriteFile" =>
             /\ j > 1
             /\ log[j - 1].verb = "export"
             /\ ~SignalsError(log[j - 1])
    /\ \A i \in 1..Len(log) :
         (log[i].verb = "export" /\ SignalsError(log[i])) =>
             /\ \A j \in 1..Len(log) : log[j].verb # "WriteFile"
             /\ ret = <<Text(CallText(log[i]))>>

\* C4: when the backend signals an error on the export invocation,
\* exportVPN attempts no file write and returns the backend's text; a file
\* write is attempted at most once, and only after an export invocation
\* that signalled no error.
C4_NoWriteAfterExportError ==
    (action = ExportVPN /\ pc = "menu" /\ Len(calls) > 1) =>
        ExportWriteRule(Tail(calls), printed)

\* the export command failed and its text was returned
C4_Witness ==
    /\ action = ExportVPN
    /\ pc = "menu"
    /\ Len(calls) = 2
    /\ calls[2].verb = "export" /\ calls[2].err # Nil
    /\ printed = <<Text(CallText(calls[2]))>>

InSeq(x, seq) == \E i \in 1..Len(seq) : seq[i] = x

\* C5: a delete is run only in an iteration that chose Remove, fetched a
\* non-empty list, had a target selected from it and had the confirmation
\* answered yes; the name deleted is the selected one.
C5_DeleteOnlyAfterYes ==
    \A j \in 1..Len(calls) :
        calls[j].verb = "delete" =>
            /\ action = RemoveVPN
            /\ j = 2 /\ Len(calls) = 2
            /\ calls[1].verb = "show"
            /\ vpns = getVPNList(ResultOf(calls[1]))
            /\ Len(vpns) > 0
            /\ InSeq(selectedVPN, vpns)
            /\ selectedVPN # <<>>
            /\ err = Nil
            /\ confirmed
            /\ calls[j].arg = selectedVPN

\* a confirmed delete was run
C5_Witness ==
    /\ action = RemoveVPN
    /\ pc = "menu"
    /\ confirmed
    /\ Len(calls) = 2
    /\ calls[2].verb = "delete"

Prompts ==
    {"connect_select", "add_input", "remove_select", "remove_confirm",
     "export_select", "export_path"}

\* C6: a follow-up prompt that is aborted runs no command, prints nothing
\* and leaves main at the menu prompt; main does not return.
C6_AbortSkipsCall ==
    [][(pc \in Prompts /\ err' # Nil) =>
          /\ pc' = "menu"
          /\ calls' = calls
          /\ printed' = printed]_vars

\* the confirmation of a removal was aborted and nothing was deleted
C6_Witness ==
    /\ action = RemoveVPN
    /\ pc = "menu"
    /\ err = Aborted
    /\ selectedVPN # <<>>
    /\ Len(calls) = 1

IsListing(c) == c.verb = "show --active" \/ (c.verb = "show" /\ c.arg = <<>>)

\* the text main prints for a failed call
FailureText(c) ==
    IF c.verb = "WriteFile"
    THEN <<"Error writing to file", ":", " ", c.err>>
    ELSE CallText(c)

Printed(t) == \E i \in 1..Len(printed) : printed[i].text = t

OnlyExitOrMenuFailure ==
    pc = "done" => (action = Exit \/ (action = "" /\ err = Aborted))

\* C7 as claimed: every failed call, listing or not, has its text printed
\* and does not end the loop; the loop ends only on Exit or when the menu
\* prompt fails.
C7_EveryFailurePrinted ==
    /\ OnlyExitOrMenuFailure
    /\ \A i \in 1..Len(calls) :
         calls[i].err # Nil =>
             /\ pc # "done"
             /\ Printed(FailureText(calls[i]))

\* C7 as amended: no failed call ends the loop; a failed activate,
\* deactivate, detail fetch, import, delete, export or file write has its
\* text printed and main is back at the menu prompt; the text of a failed
\* listing is not required to be printed; the loop ends only on Exit or
\* when the menu prompt fails.
C7_FailureIsNotFatal ==
    /\ OnlyExitOrMenuFailure
    /\ \A i \in 1..Len(calls) :
         calls[i].err # Nil =>
             /\ pc # "done"
             /\ ~IsListing(calls[i]) =>
                  /\ pc = "menu"
                  /\ Printed(FailureText(calls[i]))

\* an import failed, its text was printed and main is at the menu prompt
C7_Witness ==
    /\ pc = "menu"
    /\ action = AddVPN
    /\ Len(calls) = 1
    /\ calls[1].verb = "import" /\ calls[1].err # Nil
    /\ printed = <<Text(CallText(calls[1]))>>

\* the suffixing rule of lines 140-142
Suffixed(path) == IF HasSuffix(path, Ovpn) THEN path ELSE path \o Ovpn

Resolved == xout.set /\ (xin.dest # <<>> \/ xin.u.err = Nil)

DestinationRule ==
    /\ (xin.dest # <<>> /\ ~HasSuffix(xin.dest, Ovpn)) =>
           xout.path = xin.dest \o Ovpn
    /\ HasSuffix(xin.dest, Ovpn) => xout.path = xin.dest
    /\ Suffixed(xout.path) = xout.path

HomeNameOvpn == xin.u.home \o <<"/">> \o xin.name \o Ovpn

====
